---- MODULE Spec2Model ----
(***************************************************************************)
(* Model of the LFU caching decorator of homework_1/caching_lfu.py.        *)
(*                                                                         *)
(* One cache instance (one application of lfu_cache(max_limit) to a        *)
(* function) is modelled: its two dictionaries `cache` and `usage`, and    *)
(* the wrapper that is run on every call.  Spec runs the wrapper one call  *)
(* at a time (sequential callers).  SpecConc runs it from several threads  *)
(* at once: the wrapper takes no lock, so a thread switch can fall between *)
(* any two of its dict operations.                                         *)
(* SpecIso builds two decorated functions and calls through both.          *)
(*                                                                         *)
(* SpecPw is generate_password of homework_2/main.py, statement by         *)
(* statement; SpecMem is the measure_memory wrapper of                     *)
(* homework_1/memory_measure.py together with tracemalloc's on/off state.  *)
(***************************************************************************)
EXTENDS Integers, Sequences, FiniteSets, TLC

\* ---------------------------------------------------------------- bounds
\* Largest max_limit a cache is constructed with.
MaxLimit == 2
\* Cap on a key's frequency counter (the counter is unbounded in the code).
MaxFreq == 3
\* Number of threads calling the wrapper concurrently.
NThreads == 2

\* ---------------------------------------------------------------- inputs
\* Keyword names in Python's str order ("x" < "y").
Names == <<"x", "y">>
\* The token "[]" stands for a list argument (unhashable in Python).
PosArgs == {<<"1">>, <<"2">>, <<"3">>, <<"[]">>}
\* Keyword arguments in the order the call site supplies them.
KwArgs == {<<>>, << <<"x", "1">>, <<"y", "2">> >>, << <<"y", "2">>, <<"x", "1">> >>}
\* The calls made: every positional argument alone, and "1" with each keyword form.
Calls == {<<a, <<>> >> : a \in PosArgs} \cup {<< <<"1">>, k>> : k \in KwArgs}
\* What the wrapped function does when it is invoked: return a value or raise.
Results == {"a", "b"}
FuncOutcomes == Results \cup {"raise"}
\* max_limit values a cache is constructed with (the code accepts any int).
Limits == (-1)..MaxLimit

VARIABLES
    max_limit,  \* closure variable of lfu_cache
    cache,      \* dict key -> result
    usage,      \* dict key -> frequency, in dict (insertion) order
    last,       \* the most recent call: its arguments and how it ended
    hits,       \* history: hits on each resident key since its insertion
    form,       \* history: the call (args, kwargs as supplied) that inserted each resident key
    order,      \* history: the resident keys, earliest insertion first
    th,         \* per thread: where it is in wrapper, and wrapper's locals
    insts,      \* the decorated functions: each one's max_limit and its two dicts
    inst,       \* the decorated function that was built or called last (0: none yet)
    pw,         \* generate_password: where a request is, and its locals
    mm          \* measure_memory: tracemalloc's state and the wrapper calls in progress

vars == <<max_limit, cache, usage, last, hits, form, order, th, insts, inst, pw, mm>>

\* What the runs of one lfu_cache instance leave alone.
xvars == <<insts, inst, pw, mm>>

Threads == 1..NThreads

\* ------------------------------------------------------- Python dict (ordered)
\* A dict whose order matters is a sequence of <<key, value>> pairs.
DictKeys(d) == {d[i][1] : i \in DOMAIN d}

DictHas(d, k) == \E i \in DOMAIN d : d[i][1] = k

DictGet(d, k) == d[CHOOSE i \in DOMAIN d : d[i][1] = k][2]

\* A plausible slip: an updated key is moved to the end, as a recency list would.
DictSetMoveToEnd(d, k, v) == Append(SelectSeq(d, LAMBDA p : p[1] # k), <<k, v>>)

\* d[k] = v : an existing key keeps its position, a new key goes last.
DictSet(d, k, v) ==
    IF DictHas(d, k)
    THEN [i \in DOMAIN d |-> IF d[i][1] = k THEN <<k, v>> ELSE d[i]]
    ELSE Append(d, <<k, v>>)

\* d.pop(k)
DictPop(d, k) == SelectSeq(d, LAMBDA p : p[1] # k)

\* A dict whose order is never observed is a function.
MapSet(c, k, v) == [x \in (DOMAIN c) \cup {k} |-> IF x = k THEN v ELSE c[x]]

MapPop(c, k) == [x \in (DOMAIN c) \ {k} |-> c[x]]

EmptyMap == [x \in {} |-> ""]

\* ------------------------------------------------------------ key building
NameRank(n) == CHOOSE i \in DOMAIN Names : Names[i] = n

\* (name, value) tuples compare by name first; names of one call are distinct.
ItemLess(p, q) == NameRank(p[1]) < NameRank(q[1])

RECURSIVE InsertItem(_, _)
InsertItem(p, s) ==
    IF s = <<>> THEN <<p>>
    ELSE IF ItemLess(p, Head(s)) THEN <<p>> \o s
    ELSE <<Head(s)>> \o InsertItem(p, Tail(s))

\* sorted(kwargs.items())
RECURSIVE SortedItems(_)
SortedItems(kw) ==
    IF kw = <<>> THEN <<>>
    ELSE InsertItem(Head(kw), SortedItems(Tail(kw)))

\* A plausible slip: the keyword items are taken in call-site order.
KeyUnsorted(args, kwargs) == <<args, kwargs>>

\* key = (args, tuple(sorted(kwargs.items())))
Key(args, kwargs) == <<args, SortedItems(kwargs)>>

\* A plausible slip: the key is never hashed before the function runs.
HashableAlways(key) == TRUE

\* hash(key) succeeds: no element of the nested tuples is a list.
Hashable(key) ==
    /\ \A i \in DOMAIN key[1] : key[1][i] # "[]"
    /\ \A i \in DOMAIN key[2] : key[2][i][2] # "[]"

\* ------------------------------------------------------------ the wrapper
\* A plausible slip: a resident key is not recognised and is computed again.
IsHitNever(c, key) == FALSE

\* key in cache
IsHit(c, key) == key \in DOMAIN c

\* A plausible slip: a hit leaves the counter alone.
HitUsageNoIncrement(u, key) == u

\* usage[key] += 1
HitUsage(u, key) == DictSet(u, key, DictGet(u, key) + 1)

\* A plausible slip: room is made one entry too early.
AtCapacityEarly(c, m) == Cardinality(DOMAIN c) >= m - 1

\* A plausible slip: `>` where the code has `>=`.
AtCapacityOffByOne(c, m) == Cardinality(DOMAIN c) > m

\* len(cache) >= max_limit
AtCapacity(c, m) == Cardinality(DOMAIN c) >= m

\* A plausible slip: the last of the least-used keys instead of the first.
MinKeyLast(u) ==
    u[CHOOSE i \in DOMAIN u :
        \A j \in DOMAIN u : u[j][2] > u[i][2] \/ (u[j][2] = u[i][2] /\ j <= i)][1]

\* min(usage, key=usage.get): the first key, in dict order, whose count is minimal.
MinKey(u) ==
    u[CHOOSE i \in DOMAIN u :
        \A j \in DOMAIN u : u[j][2] > u[i][2] \/ (u[j][2] = u[i][2] /\ j >= i)][1]

\* A plausible slip: the victim's counter is left behind.
EvictCacheOnly(c, u, v) == [cache |-> MapPop(c, v), usage |-> u]

\* cache.pop(least_used_key); usage.pop(least_used_key)
Evict(c, u, v) == [cache |-> MapPop(c, v), usage |-> DictPop(u, v)]

\* How one run of the wrapper ends: the two dicts afterwards, how the call
\* ended ("hit", "miss", or the exception that left the wrapper), the value
\* returned, whether func was invoked, and the keys removed.
Out(c, u, outcome, ret, invoked, evicted) ==
    [cache |-> c, usage |-> u, outcome |-> outcome, ret |-> ret,
     invoked |-> invoked, evicted |-> evicted]

\* A plausible slip: the result is stored before room is made for it.
InstallInsertFirst(c, u, m, key, f) ==
    LET c1 == MapSet(c, key, f)
        u1 == DictSet(u, key, 1)
    IN  IF AtCapacity(c, m)
        THEN LET v == MinKey(u1)
                 e == Evict(c1, u1, v)
             IN  Out(e.cache, e.usage, "miss", f, TRUE, {v})
        ELSE Out(c1, u1, "miss", f, TRUE, {})

\* Lines 53-60 once func has returned f.
Install(c, u, m, key, f) ==
    IF AtCapacity(c, m)
    THEN IF u = <<>>
         THEN Out(c, u, "ValueError", "", TRUE, {})      \* min() of an empty dict
         ELSE LET v == MinKey(u) IN
              IF v \notin DOMAIN c
              THEN Out(c, u, "KeyError", "", TRUE, {})   \* cache.pop(v)
              ELSE LET e == Evict(c, u, v) IN
                   Out(MapSet(e.cache, key, f), DictSet(e.usage, key, 1),
                       "miss", f, TRUE, {v})
    ELSE Out(MapSet(c, key, f), DictSet(u, key, 1), "miss", f, TRUE, {})

\* A plausible slip: room is made before func is called.
MissEvictFirst(c, u, m, key, f) ==
    IF f = "raise"
    THEN IF AtCapacity(c, m) /\ u # <<>> /\ MinKey(u) \in DOMAIN c
         THEN LET e == Evict(c, u, MinKey(u)) IN
              Out(e.cache, e.usage, "raise", "", TRUE, {MinKey(u)})
         ELSE Out(c, u, "raise", "", TRUE, {})
    ELSE Install(c, u, m, key, f)

\* Lines 52-60: result = func(*args, **kwargs) raises or returns f.
Miss(c, u, m, key, f) ==
    IF f = "raise"
    THEN Out(c, u, "raise", "", TRUE, {})
    ELSE Install(c, u, m, key, f)

\* wrapper(*args, **kwargs), run from entry to exit with no other caller.
Wrapper(c, u, m, args, kwargs, f) ==
    LET key == Key(args, kwargs) IN
    IF ~Hashable(key)
    THEN Out(c, u, "TypeError", "", FALSE, {})           \* hash(key) in `key in cache`
    ELSE IF IsHit(c, key)
         THEN IF ~DictHas(u, key)
              THEN Out(c, u, "KeyError", "", FALSE, {})  \* usage[key]
              ELSE Out(c, HitUsage(u, key), "hit", c[key], FALSE, {})
         ELSE Miss(c, u, m, key, f)

\* ------------------------------------------------------------ sequential run
MapPopAll(c, S) == [x \in (DOMAIN c) \ S |-> c[x]]

\* The key of a call with no arguments: stands for "no key" in a thread's locals.
NoKey == <<<<>>, <<>>>>

\* A thread outside wrapper.  At pc = "done" the call is leaving wrapper:
\* `out` tells how ("hit", "miss" or the exception raised), `ret` the value returned.
IdleThread == [pc |-> "idle", key |-> NoKey, result |-> "", least_used_key |-> NoKey,
               tmp |-> 0, out |-> "none", ret |-> ""]

\* The decorated functions of the run with several cache instances.
Instances == {1, 2}

\* A decorated function that has not been built yet.
NotBuilt == [built |-> FALSE, max_limit |-> 0, cache |-> EmptyMap, usage |-> <<>>]

\* No request for a password is being served.
IdlePw == [pc |-> "idle", length |-> 0, password_chars |-> <<>>, ret |-> <<>>]

\* tracemalloc is not tracing and no measured call is in progress.
IdleMm == [tracing |-> FALSE, current |-> 0, peak |-> 0, stack |-> <<>>,
           out |-> "none", ret |-> "", report |-> <<0, 0>>]

Init ==
    /\ max_limit \in Limits
    /\ cache = EmptyMap
    /\ usage = <<>>
    /\ last = [args |-> <<>>, kwargs |-> <<>>, outcome |-> "none", ret |-> "",
               invoked |-> FALSE, func |-> "", evicted |-> {}]
    /\ hits = EmptyMap
    /\ form = EmptyMap
    /\ order = <<>>
    /\ th = [t \in Threads |-> IdleThread]
    /\ insts = [i \in Instances |-> NotBuilt]
    /\ inst = 0
    /\ pw = IdlePw
    /\ mm = IdleMm

\* One complete call wrapper(*args, **kwargs); f is what func does if invoked.
Call(args, kwargs, f) ==
    \E key \in {Key(args, kwargs)},
       w \in {Wrapper(cache, usage, max_limit, args, kwargs, f)} :
        \* f is read only when func is invoked: one f stands for the other calls
        /\ w.invoked \/ f = "raise"
        /\ (w.outcome = "hit") => (DictGet(usage, key) < MaxFreq)
        /\ cache' = w.cache
        /\ usage' = w.usage
        /\ last' = [args |-> args, kwargs |-> kwargs, outcome |-> w.outcome,
                    ret |-> w.ret, invoked |-> w.invoked,
                    func |-> IF w.invoked THEN f ELSE "", evicted |-> w.evicted]
        /\ hits' = CASE w.outcome = "hit" -> MapSet(hits, key, hits[key] + 1)
                     [] w.outcome = "miss" -> MapSet(MapPopAll(hits, w.evicted), key, 0)
                     [] OTHER -> MapPopAll(hits, w.evicted)
        /\ form' = CASE w.outcome = "miss" ->
                          MapSet(MapPopAll(form, w.evicted), key, <<args, kwargs>>)
                     [] OTHER -> MapPopAll(form, w.evicted)
        /\ order' = LET kept == SelectSeq(order, LAMBDA k : k \notin w.evicted) IN
                    IF w.outcome = "miss"
                    THEN Append(SelectSeq(kept, LAMBDA k : k # key), key)
                    ELSE kept
        /\ UNCHANGED <<max_limit, th, xvars>>

Next == \E c \in Calls, f \in FuncOutcomes : Call(c[1], c[2], f)

Spec == Init /\ [][Next]_vars

\* ------------------------------------------------------------ concurrent run
\* The calls made by concurrent callers.
ConcCalls == {<< <<"1">>, <<>> >>, << <<"2">>, <<>> >>}

seqvars == <<last, hits, form, order>>

\* The call of thread t ends: it returns ret or raises the exception out.
Leave(t, out, ret) ==
    [th EXCEPT ![t] = [@ EXCEPT !.pc = "done", !.out = out, !.ret = ret]]

Goto(t, pc) == [th EXCEPT ![t].pc = pc]

\* Line 48: the key is built from the call's arguments.
Start(t, c) ==
    /\ th[t].pc = "idle"
    /\ th' = [th EXCEPT ![t] = [IdleThread EXCEPT !.pc = "l49", !.key = Key(c[1], c[2])]]
    /\ UNCHANGED <<max_limit, cache, usage, seqvars, xvars>>

\* Line 49: if key in cache
L49(t) ==
    /\ th[t].pc = "l49"
    /\ th' = IF ~Hashable(th[t].key) THEN Leave(t, "TypeError", "")
             ELSE IF IsHit(cache, th[t].key) THEN Goto(t, "l50")
             ELSE Goto(t, "l52")
    /\ UNCHANGED <<max_limit, cache, usage, seqvars, xvars>>

\* Line 50, first half: usage[key] is loaded.
L50Load(t) ==
    /\ th[t].pc = "l50"
    /\ DictHas(usage, th[t].key) => DictGet(usage, th[t].key) < MaxFreq
    /\ th' = IF DictHas(usage, th[t].key)
             THEN [th EXCEPT ![t].pc = "l50s", ![t].tmp = DictGet(usage, th[t].key)]
             ELSE Leave(t, "KeyError", "")
    /\ UNCHANGED <<max_limit, cache, usage, seqvars, xvars>>

\* Line 50, second half: the loaded count plus one is stored.
L50Store(t) ==
    /\ th[t].pc = "l50s"
    /\ usage' = DictSet(usage, th[t].key, th[t].tmp + 1)
    /\ th' = Goto(t, "l51")
    /\ UNCHANGED <<max_limit, cache, seqvars, xvars>>

\* Line 51: return cache[key]
L51(t) ==
    /\ th[t].pc = "l51"
    /\ th' = IF th[t].key \in DOMAIN cache
             THEN Leave(t, "hit", cache[th[t].key])
             ELSE Leave(t, "KeyError", "")
    /\ UNCHANGED <<max_limit, cache, usage, seqvars, xvars>>

\* Line 52: result = func(*args, **kwargs)
L52(t, f) ==
    /\ th[t].pc = "l52"
    /\ th' = IF f = "raise" THEN Leave(t, "raise", "")
             ELSE [th EXCEPT ![t].pc = "l53", ![t].result = f]
    /\ UNCHANGED <<max_limit, cache, usage, seqvars, xvars>>

\* Line 53: if len(cache) >= max_limit
L53(t) ==
    /\ th[t].pc = "l53"
    /\ th' = IF AtCapacity(cache, max_limit) THEN Goto(t, "l55") ELSE Goto(t, "l58")
    /\ UNCHANGED <<max_limit, cache, usage, seqvars, xvars>>

\* Line 55: least_used_key = min(usage, key=usage.get)
L55(t) ==
    /\ th[t].pc = "l55"
    /\ th' = IF usage = <<>> THEN Leave(t, "ValueError", "")
             ELSE [th EXCEPT ![t].pc = "l56", ![t].least_used_key = MinKey(usage)]
    /\ UNCHANGED <<max_limit, cache, usage, seqvars, xvars>>

\* Line 56: cache.pop(least_used_key)
L56(t) ==
    /\ th[t].pc = "l56"
    /\ IF th[t].least_used_key \in DOMAIN cache
       THEN /\ cache' = MapPop(cache, th[t].least_used_key)
            /\ th' = Goto(t, "l57")
       ELSE /\ th' = Leave(t, "KeyError", "")
            /\ UNCHANGED cache
    /\ UNCHANGED <<max_limit, usage, seqvars, xvars>>

\* Line 57: usage.pop(least_used_key)
L57(t) ==
    /\ th[t].pc = "l57"
    /\ IF DictHas(usage, th[t].least_used_key)
       THEN /\ usage' = DictPop(usage, th[t].least_used_key)
            /\ th' = Goto(t, "l58")
       ELSE /\ th' = Leave(t, "KeyError", "")
            /\ UNCHANGED usage
    /\ UNCHANGED <<max_limit, cache, seqvars, xvars>>

\* Line 58: cache[key] = result
L58(t) ==
    /\ th[t].pc = "l58"
    /\ cache' = MapSet(cache, th[t].key, th[t].result)
    /\ th' = Goto(t, "l59")
    /\ UNCHANGED <<max_limit, usage, seqvars, xvars>>

\* Lines 59-60: usage[key] = 1; return result
L59(t) ==
    /\ th[t].pc = "l59"
    /\ usage' = DictSet(usage, th[t].key, 1)
    /\ th' = Leave(t, "miss", th[t].result)
    /\ UNCHANGED <<max_limit, cache, seqvars, xvars>>

\* The caller has the call's result (or exception) and goes on.
Return(t) ==
    /\ th[t].pc = "done"
    /\ th' = [th EXCEPT ![t] = IdleThread]
    /\ UNCHANGED <<max_limit, cache, usage, seqvars, xvars>>

\* Concurrent callers use a cache built with a positive max_limit.
InitConc == Init /\ max_limit >= 1

NextConc ==
    \E t \in Threads :
        \/ \E c \in ConcCalls : Start(t, c)
        \/ L49(t)
        \/ L50Load(t)
        \/ L50Store(t)
        \/ L51(t)
        \/ \E f \in FuncOutcomes : L52(t, f)
        \/ L53(t)
        \/ L55(t)
        \/ L56(t)
        \/ L57(t)
        \/ L58(t)
        \/ L59(t)
        \/ Return(t)

SpecConc == InitConc /\ [][NextConc]_vars

\* ------------------------------------------------------------ several instances
\* The calls made through each decorated function.
IsoCalls == {<< <<"1">>, <<>> >>, << <<"2">>, <<>> >>}

\* What the function wrapped by instance i returns: each wraps its own function.
FuncOf(i) == IF i = 1 THEN "a" ELSE "b"

\* A plausible slip: the two dicts are created once and shared by every wrapper.
StoreOfShared(i) == 1

\* decorator(func) creates cache = {} and usage = {} anew: the wrapper of
\* instance i closes over the pair of dicts number i.
StoreOf(i) == i

\* wrapper.cache and wrapper.usage of instance i.
CacheOf(i) == insts[StoreOf(i)].cache

UsageOf(i) == insts[StoreOf(i)].usage

isovars == <<max_limit, cache, usage, hits, form, order, th, pw, mm>>

\* lfu_cache(max_limit = m)(func): instance i is built.
Decorate(i, m) ==
    /\ ~insts[i].built
    /\ insts' = [[insts EXCEPT ![i].built = TRUE, ![i].max_limit = m]
                    EXCEPT ![StoreOf(i)].cache = EmptyMap, ![StoreOf(i)].usage = <<>>]
    /\ inst' = i
    /\ UNCHANGED <<last, isovars>>

\* One complete call through the wrapper of instance i.
CallInst(i, c, f) ==
    /\ insts[i].built
    /\ \E key \in {Key(c[1], c[2])},
          w \in {Wrapper(CacheOf(i), UsageOf(i), insts[i].max_limit, c[1], c[2], f)} :
        /\ w.invoked \/ f = "raise"
        /\ (w.outcome = "hit") => (DictGet(UsageOf(i), key) < MaxFreq)
        /\ insts' = [insts EXCEPT ![StoreOf(i)].cache = w.cache,
                                  ![StoreOf(i)].usage = w.usage]
        /\ inst' = i
        /\ last' = [args |-> c[1], kwargs |-> c[2], outcome |-> w.outcome,
                    ret |-> w.ret, invoked |-> w.invoked,
                    func |-> IF w.invoked THEN f ELSE "", evicted |-> w.evicted]
    /\ UNCHANGED isovars

\* The run with several instances starts from a single state.
InitIso == Init /\ max_limit = 1

NextIso ==
    \E i \in Instances :
        \/ \E m \in 1..MaxLimit : Decorate(i, m)
        \/ \E c \in IsoCalls, f \in {FuncOf(i), "raise"} : CallInst(i, c, f)

SpecIso == InitIso /\ [][NextIso]_vars

\* ------------------------------------------------------------ generate_password
\* random.randint(10, 20) is inclusive at both ends.
MinLen == 10
MaxLen == 20
\* Number of rotations tried as outcomes of random.shuffle.
MaxShift == 3

\* The four character sets, as strings (sequences of characters); one
\* character stands for each set.
Lowercase == <<"a">>
Uppercase == <<"A">>
Digits == <<"0">>
Symbols == <<"!">>

\* all_chars = lowercase + uppercase + digits + symbols
AllChars == Lowercase \o Uppercase \o Digits \o Symbols

\* random.choice(seq): any element of seq.
Choices(seq) == {seq[i] : i \in DOMAIN seq}

\* [random.choice(lowercase), random.choice(uppercase), random.choice(digits),
\*  random.choice(symbols)]
Required ==
    {<<l, u, d, y>> : l \in Choices(Lowercase), u \in Choices(Uppercase),
                      d \in Choices(Digits), y \in Choices(Symbols)}

\* A plausible slip: the four required characters are not subtracted.
FillCountWhole(length) == length

\* range(length - 4)
FillCount(length) == length - 4

\* n copies of the character ch.
Rep(ch, n) == [i \in 1..n |-> ch]

\* [random.choice(all_chars) for _ in range(n)]: every choice of n characters,
\* listed up to their order (the shuffle that follows reorders the list).
Fills(n) ==
    UNION {UNION {{Rep(AllChars[1], a) \o Rep(AllChars[2], b) \o Rep(AllChars[3], c)
                      \o Rep(AllChars[4], n - a - b - c) : c \in 0..(n - a - b)} :
                  b \in 0..(n - a)} :
           a \in 0..n}

Rotate(s, r) == [i \in DOMAIN s |-> s[((i + r - 1) % Len(s)) + 1]]

\* random.shuffle(password_chars): the list in another order.
Shuffles(s) == {Rotate(s, r) : r \in 0..MaxShift}

\* ''.join(password_chars): the characters of the elements, in order.
RECURSIVE Join(_)
Join(cs) == IF cs = <<>> THEN <<>> ELSE <<Head(cs)>> \o Join(Tail(cs))

pwvars == <<max_limit, cache, usage, last, hits, form, order, th, insts, inst, mm>>

\* Line 33: length = random.randint(10, 20)
PwLength(n) ==
    /\ pw.pc = "idle"
    /\ pw' = [IdlePw EXCEPT !.pc = "l36", !.length = n]
    /\ UNCHANGED pwvars

\* Lines 36-41: one character from each set.
PwRequired(req) ==
    /\ pw.pc = "l36"
    /\ pw' = [pw EXCEPT !.pc = "l45", !.password_chars = req]
    /\ UNCHANGED pwvars

\* Lines 44-45: password_chars += [random.choice(all_chars) ...]
PwFill ==
    /\ pw.pc = "l45"
    /\ \E fill \in Fills(FillCount(pw.length)) :
          pw' = [pw EXCEPT !.pc = "l48", !.password_chars = @ \o fill]
    /\ UNCHANGED pwvars

\* Line 48: random.shuffle(password_chars)
PwShuffle ==
    /\ pw.pc = "l48"
    /\ \E sh \in Shuffles(pw.password_chars) :
          pw' = [pw EXCEPT !.pc = "l50", !.password_chars = sh]
    /\ UNCHANGED pwvars

\* Line 50: return ''.join(password_chars)
PwJoin ==
    /\ pw.pc = "l50"
    /\ pw' = [pw EXCEPT !.pc = "done", !.ret = Join(pw.password_chars)]
    /\ UNCHANGED pwvars

\* The response is sent; the next request can come.
PwNext ==
    /\ pw.pc = "done"
    /\ pw' = IdlePw
    /\ UNCHANGED pwvars

InitPw == Init /\ max_limit = 1

NextPw ==
    \/ \E n \in MinLen..MaxLen : PwLength(n)
    \/ \E req \in Required : PwRequired(req)
    \/ PwFill
    \/ PwShuffle
    \/ PwJoin
    \/ PwNext

SpecPw == InitPw /\ [][NextPw]_vars

\* ------------------------------------------------------------ measure_memory
\* Deepest nesting of measured calls (a measured function calling another).
MaxDepth == 2
\* Largest amount of traced memory, in blocks.
MaxMem == 2

mmvars == <<max_limit, cache, usage, last, hits, form, order, th, insts, inst, pw>>

\* The wrapper call that is innermost.
Top == mm.stack[Len(mm.stack)]

\* The func of the innermost wrapper call is running.
Running == mm.stack # <<>> /\ Top.pc = "l38"

SetTop(fr) == [mm.stack EXCEPT ![Len(mm.stack)] = fr]

Pop == SubSeq(mm.stack, 1, Len(mm.stack) - 1)

\* Line 37: wrapper is entered, from outside or from a running measured
\* function; tracemalloc.start() does nothing when tracing is already on.
MmEnter ==
    /\ mm.stack = <<>> \/ Running
    /\ Len(mm.stack) < MaxDepth
    /\ mm' = [mm EXCEPT !.tracing = TRUE,
                        !.stack = Append(@, [pc |-> "l38", result |-> "",
                                             current |-> 0, peak |-> 0]),
                        !.out = "none", !.ret = "", !.report = <<0, 0>>]
    /\ UNCHANGED mmvars

\* Line 38, inside func: memory is allocated (d = 1) or freed (d = -1);
\* tracemalloc follows it only while tracing.
MmAlloc(d) ==
    /\ Running
    /\ mm.tracing
    /\ mm.current + d \in 0..MaxMem
    /\ mm' = [mm EXCEPT !.current = @ + d,
                        !.peak = IF mm.current + d > @ THEN mm.current + d ELSE @]
    /\ UNCHANGED mmvars

\* Line 38: func returns r.
MmFuncReturn(r) ==
    /\ Running
    /\ mm' = [mm EXCEPT !.stack = SetTop([Top EXCEPT !.pc = "l39", !.result = r])]
    /\ UNCHANGED mmvars

\* Line 38: func raises; wrapper has no handler, so the exception leaves the
\* wrapper call at once and reaches its caller.
MmFuncRaise ==
    /\ Running
    /\ mm' = [mm EXCEPT !.stack = Pop,
                        !.out = IF Len(mm.stack) = 1 THEN "raised" ELSE @]
    /\ UNCHANGED mmvars

\* Line 39: current, peak = tracemalloc.get_traced_memory()
MmGet ==
    /\ mm.stack # <<>>
    /\ Top.pc = "l39"
    /\ mm' = [mm EXCEPT !.stack = SetTop([Top EXCEPT
                  !.pc = "l40",
                  !.current = IF mm.tracing THEN mm.current ELSE 0,
                  !.peak = IF mm.tracing THEN mm.peak ELSE 0])]
    /\ UNCHANGED mmvars

\* Line 40: tracemalloc.stop() ends tracing and clears the traces.
MmStop ==
    /\ mm.stack # <<>>
    /\ Top.pc = "l40"
    /\ mm' = [mm EXCEPT !.tracing = FALSE, !.current = 0, !.peak = 0,
                        !.stack = SetTop([Top EXCEPT !.pc = "l41"])]
    /\ UNCHANGED mmvars

\* Lines 41-46: the usage is printed and result is returned to the caller.
MmReturn ==
    /\ mm.stack # <<>>
    /\ Top.pc = "l41"
    /\ mm' = [mm EXCEPT !.stack = Pop,
                        !.report = <<Top.current, Top.peak>>,
                        !.out = IF Len(mm.stack) = 1 THEN "returned" ELSE @,
                        !.ret = IF Len(mm.stack) = 1 THEN Top.result ELSE @]
    /\ UNCHANGED mmvars

InitMem == Init /\ max_limit = 1

NextMem ==
    \/ MmEnter
    \/ \E d \in {-1, 1} : MmAlloc(d)
    \/ \E r \in Results : MmFuncReturn(r)
    \/ MmFuncRaise
    \/ MmGet
    \/ MmStop
    \/ MmReturn

SpecMem == InitMem /\ [][NextMem]_vars

TypeOK ==
    /\ max_limit \in Limits
    /\ DOMAIN cache \subseteq {Key(c[1], c[2]) : c \in Calls}
    /\ \A k \in DOMAIN cache : cache[k] \in Results
    /\ \A i \in DOMAIN usage : usage[i][2] \in 0..MaxFreq

\* ------------------------------------------------------------ properties
K1 == Key(<<"1">>, <<>>)
K2 == Key(<<"2">>, <<>>)
K3 == Key(<<"3">>, <<>>)

\* The key of the most recent call.
LastKey == Key(last.args, last.kwargs)

\* Position of a resident key in the insertion history.
Pos(k) == CHOOSE i \in DOMAIN order : order[i] = k

\* The set of keyword name/value pairs of a call.
ItemSet(kw) == {kw[i] : i \in DOMAIN kw}

\* Some argument of the call is a list.
HasListArg(args, kwargs) ==
    \/ \E i \in DOMAIN args : args[i] = "[]"
    \/ \E i \in DOMAIN kwargs : kwargs[i][2] = "[]"

\* C1 - capacity: a cache built with max_limit >= 1 never holds more than
\* max_limit entries after a completed call.
C1_Capacity == (max_limit >= 1) => (Cardinality(DOMAIN cache) <= max_limit)

C1_Witness ==
    /\ max_limit >= 1
    /\ last.outcome = "miss"
    /\ last.evicted # {}
    /\ Cardinality(DOMAIN cache) = max_limit

\* C2 - victim selection: a miss at capacity evicts exactly one key, whose
\* counter is minimal among the resident keys and which was inserted earliest
\* among the keys tied at that minimum; with max_limit = 2 a miss on 3 after
\* calls 1, 2 leaves {2, 3}, and after calls 1, 2, 1 leaves {1: 2, 3: 1}.
C2_Victim ==
    [][ (last'.outcome = "miss" /\ Cardinality(DOMAIN cache) >= max_limit) =>
          /\ \E v \in DOMAIN cache :
                /\ last'.evicted = {v}
                /\ DOMAIN cache' = ((DOMAIN cache) \ {v}) \cup {Key(last'.args, last'.kwargs)}
                /\ \A k \in (DOMAIN cache) \ {v} :
                      \/ DictGet(usage, k) > DictGet(usage, v)
                      \/ DictGet(usage, k) = DictGet(usage, v) /\ Pos(v) < Pos(k)
          /\ (max_limit = 2 /\ usage = << <<K1, 1>>, <<K2, 1>> >> /\ last'.args = <<"3">>)
                => (DOMAIN cache' = {K2, K3} /\ last'.evicted = {K1})
          /\ (max_limit = 2 /\ usage = << <<K1, 2>>, <<K2, 1>> >> /\ last'.args = <<"3">>)
                => (DOMAIN cache' = {K1, K3} /\ usage' = << <<K1, 2>>, <<K3, 1>> >>)
      ]_vars

C2_Witness ==
    /\ max_limit = 2
    /\ last.outcome = "miss"
    /\ last.evicted = {K1}
    /\ usage = << <<K2, 1>>, <<K3, 1>> >>

\* C3 - a hit avoids recomputation: a call whose key is resident does not
\* invoke func and returns the stored value, and a key that stays resident
\* keeps the value stored at its insertion.
C3_HitNoRecompute ==
    [][ \A k \in DOMAIN cache :
          /\ (k \in DOMAIN cache') => (cache'[k] = cache[k])
          /\ (Key(last'.args, last'.kwargs) = k) =>
                (last'.outcome = "hit" /\ ~last'.invoked /\ last'.ret = cache[k])
      ]_vars

C3_Witness ==
    /\ last.outcome = "hit"
    /\ ~last.invoked
    /\ last.ret = cache[LastKey]
    /\ hits[LastKey] = 1

\* C4 - frequency accounting: the counter of every resident key is 1 plus the
\* number of hits on it since its most recent insertion, and is 1 right after
\* an insertion.
C4_Frequency ==
    /\ \A k \in DOMAIN cache : DictHas(usage, k) /\ DictGet(usage, k) = 1 + hits[k]
    /\ (last.outcome = "miss") => (DictHas(usage, LastKey) /\ DictGet(usage, LastKey) = 1)

C4_Witness ==
    /\ last.outcome = "hit"
    /\ hits[LastKey] = 2
    /\ DictGet(usage, LastKey) = 3

\* C5 - keyword order independence: a call with the positional arguments and
\* the set of keyword pairs of the call that inserted a resident key is a hit
\* on that key, whatever order its keywords come in.
C5_KeywordOrder ==
    [][ \A k \in DOMAIN cache :
          (last'.args = form[k][1] /\ ItemSet(last'.kwargs) = ItemSet(form[k][2])) =>
              /\ Key(last'.args, last'.kwargs) = k
              /\ last'.outcome = "hit"
              /\ ~last'.invoked
              /\ cache' = cache
              /\ DictGet(usage', k) = DictGet(usage, k) + 1
      ]_vars

C5_Witness ==
    /\ last.outcome = "hit"
    /\ last.kwargs # <<>>
    /\ last.kwargs # form[LastKey][2]
    /\ DictGet(usage, LastKey) = 2
    /\ Cardinality(DOMAIN cache) = 1

\* C6 - computation error: when func raises on a miss the call ends with that
\* error and both dicts are what they were before the call (nothing added,
\* nothing evicted, no counter changed).
C6_RaiseLeavesState ==
    [][ (last'.func = "raise") =>
          /\ last'.outcome = "raise"
          /\ last'.evicted = {}
          /\ cache' = cache
          /\ usage' = usage
      ]_vars

C6_Witness ==
    /\ last.outcome = "raise"
    /\ max_limit >= 1
    /\ Cardinality(DOMAIN cache) = max_limit
    /\ LastKey \notin DOMAIN cache

\* C7 - invalid configuration: through a cache built with max_limit <= 0 no
\* call is ever carried out, so func is never invoked.
C7_InvalidConfigRejected == (max_limit <= 0) => ~last.invoked

C9_Bijection ==
    /\ DOMAIN cache = DictKeys(usage)
    /\ \A i, j \in DOMAIN usage : (usage[i][1] = usage[j][1]) => (i = j)
    /\ \A i \in DOMAIN usage : usage[i][2] >= 1
    /\ \A v \in last.evicted : v \notin DOMAIN cache /\ ~DictHas(usage, v)

C9_Witness ==
    /\ last.outcome = "miss"
    /\ last.evicted # {}
    /\ DOMAIN cache = DictKeys(usage)
    /\ Len(usage) >= 2

\* C10 - concurrent consistency: in no state of a concurrent run does the
\* value map hold a key without a counter in the frequency map, or the
\* frequency map a counter without a value.
C10_NoPartialUpdate == DOMAIN cache = DictKeys(usage)

\* Every thread is outside wrapper or has its call's outcome in hand.
AllCallsCompleted == \A t \in Threads : th[t].pc \in {"idle", "done"}

\* C11 - capacity under concurrency: once the calls of all concurrent callers
\* have completed, the cache holds at most max_limit entries.
C11_ConcCapacity ==
    AllCallsCompleted => (Cardinality(DOMAIN cache) <= max_limit)

\* C12 - duplicate concurrent miss: when two callers have both computed a
\* result for the same key, neither call fails, each returns its own result,
\* and the key is resident with one of the two results and one counter.
C12_DuplicateMiss ==
    \A s, t \in Threads :
        (/\ s # t
         /\ th[s].pc = "done" /\ th[t].pc = "done"
         /\ th[s].key = th[t].key
         /\ th[s].result # "" /\ th[t].result # "") =>
            /\ th[s].out = "miss" /\ th[s].ret = th[s].result
            /\ th[t].out = "miss" /\ th[t].ret = th[t].result
            /\ th[s].key \in DOMAIN cache
            /\ cache[th[s].key] \in {th[s].result, th[t].result}
            /\ Cardinality({i \in DOMAIN usage : usage[i][1] = th[s].key}) = 1

\* C13 - counter monotonicity under concurrency: the counter of a key that
\* is resident before and after a step does not decrease in that step.
C13_CounterMonotone ==
    [][ \A k \in (DOMAIN cache) \cap (DOMAIN cache') :
          (DictHas(usage, k) /\ DictHas(usage', k)) =>
              (DictGet(usage', k) >= DictGet(usage, k))
      ]_vars

\* C17 - no internal failure under concurrency: no call of a concurrent
\* caller ends with an error of the wrapper's own bookkeeping; a call ends as
\* a hit, as a miss, or with the error func raised.
C17_NoInternalFailure ==
    \A t \in Threads : (th[t].pc = "done") => (th[t].out \in {"hit", "miss", "raise"})

\* The keys of a dict in dict order.
KeySeq(d) == [i \in DOMAIN d |-> d[i][1]]

\* C15 - eviction granularity: a miss below capacity removes no entry, a miss
\* at capacity removes exactly one entry and leaves max_limit entries, and a
\* call that is not a miss removes none.
C15_EvictionGranularity ==
    [][ /\ (last'.outcome = "miss" /\ Cardinality(DOMAIN cache) < max_limit) =>
              /\ last'.evicted = {}
              /\ (DOMAIN cache) \subseteq (DOMAIN cache')
              /\ Cardinality(DOMAIN cache') = Cardinality(DOMAIN cache) + 1
        /\ (last'.outcome = "miss" /\ Cardinality(DOMAIN cache) = max_limit) =>
              /\ Cardinality(last'.evicted) = 1
              /\ (DOMAIN cache) \ (DOMAIN cache') = last'.evicted
              /\ Cardinality(DOMAIN cache') = max_limit
        /\ (last'.outcome # "miss") =>
              /\ last'.evicted = {}
              /\ DOMAIN cache' = DOMAIN cache
      ]_vars

C15_Witness ==
    /\ max_limit = 2
    /\ last.outcome = "miss"
    /\ last.evicted = {}
    /\ Cardinality(DOMAIN cache) = 2

\* C16 - frame of a hit: a hit on k adds one to k's counter and changes
\* nothing else: not the value map, not another key's counter, not the dict
\* order of usage nor the insertion history; so with max_limit = 2, after
\* calls 1, 2, 2, 1 a miss on 3 evicts key 1.
C16_HitFrame ==
    [][ /\ (last'.outcome = "hit") =>
              LET k == Key(last'.args, last'.kwargs) IN
              /\ cache' = cache
              /\ order' = order
              /\ KeySeq(usage') = KeySeq(usage)
              /\ \A i \in DOMAIN usage :
                    usage'[i][2] = IF usage[i][1] = k THEN usage[i][2] + 1 ELSE usage[i][2]
        /\ (/\ max_limit = 2
            /\ last.outcome = "hit" /\ LastKey = K1
            /\ DOMAIN cache = {K1, K2}
            /\ DictGet(usage, K1) = 2 /\ DictGet(usage, K2) = 2
            /\ Pos(K1) < Pos(K2)
            /\ last'.outcome = "miss") =>
              (last'.evicted = {K1} /\ DOMAIN cache' = {K2, Key(last'.args, last'.kwargs)})
      ]_vars

C16_Witness ==
    /\ max_limit = 2
    /\ last.outcome = "hit"
    /\ LastKey = K1
    /\ usage = << <<K1, 2>>, <<K2, 2>> >>
    /\ order = <<K1, K2>>

\* C18 - result residency: with max_limit >= 1, right after a call that
\* returned, its key is resident with the value the call returned, and it is
\* not the key that the call evicted.
C18_ResultResident ==
    (max_limit >= 1 /\ last.outcome \in {"hit", "miss"}) =>
        /\ LastKey \in DOMAIN cache
        /\ cache[LastKey] = last.ret
        /\ LastKey \notin last.evicted

C18_Witness ==
    /\ last.outcome = "miss"
    /\ last.evicted # {}
    /\ LastKey \in DOMAIN cache
    /\ cache[LastKey] = last.ret
    /\ \A k \in (DOMAIN cache) \ {LastKey} : DictGet(usage, k) >= 2
    /\ Cardinality(DOMAIN cache) = 2

\* C19 - cache isolation: building or calling one decorated function leaves
\* the value map, the frequency map and the max_limit of every other
\* decorated function as they were.
C19_Isolation ==
    [][ \A j \in Instances :
          (j # inst') =>
              /\ CacheOf(j)' = CacheOf(j)
              /\ UsageOf(j)' = UsageOf(j)
              /\ insts'[j].max_limit = insts[j].max_limit
              /\ insts'[j].built = insts[j].built
      ]_vars

C19_Witness ==
    /\ insts[1].built /\ insts[2].built
    /\ inst = 2
    /\ last.outcome = "miss"
    /\ LastKey = K1
    /\ K1 \in DOMAIN CacheOf(1) /\ CacheOf(1)[K1] = "a" /\ DictGet(UsageOf(1), K1) = 2
    /\ K1 \in DOMAIN CacheOf(2) /\ CacheOf(2)[K1] = "b" /\ DictGet(UsageOf(2), K1) = 1

\* The characters of a string that belong to the character set cls.
CharsIn(str, cls) == {i \in DOMAIN str : str[i] \in Choices(cls)}

\* C14 - generate_password: every password returned is 10 to 20 characters
\* long and holds a lowercase letter, an uppercase letter, a digit and a
\* punctuation symbol.
C14_PasswordShape ==
    (pw.pc = "done") =>
        /\ Len(pw.ret) >= 10
        /\ Len(pw.ret) <= 20
        /\ CharsIn(pw.ret, Lowercase) # {}
        /\ CharsIn(pw.ret, Uppercase) # {}
        /\ CharsIn(pw.ret, Digits) # {}
        /\ CharsIn(pw.ret, Symbols) # {}

C14_Witness ==
    /\ pw.pc = "done"
    /\ Len(pw.ret) = 20
    /\ Cardinality(CharsIn(pw.ret, Digits)) = 1
    /\ CharsIn(pw.ret, Digits) # {3}
    /\ Cardinality(CharsIn(pw.ret, Symbols)) = 1

\* C20 - measure_memory: whenever no measured call is in progress, however
\* the calls before ended, memory tracking is off; and a call that returned
\* gave back the result of the wrapped function.
C20_TrackingOff ==
    (mm.stack = <<>>) =>
        /\ ~mm.tracing
        /\ (mm.out = "returned") => (mm.ret \in Results)

====
